---- MODULE Spec2Model ----
(***************************************************************************)
(* The NIP-29 group aggregate of go-nostr: the Group struct, its three     *)
(* snapshot folds (MergeIn*Event), its three projections (To*Event), the   *)
(* moderation-action factories (GetModerationAction) and the Apply method  *)
(* of every action.                                                        *)
(***************************************************************************)
EXTENDS Integers, Sequences, FiniteSets, TLC

VARIABLES
    groups,     \* replica -> Group value (one Go Group struct per replica)
    heap,       \* role pointer -> Role object (the Go heap of *Role values)
    last,       \* the last call made: its name, replica, input and result
    pre,        \* the groups and the heap as they were before the last call
    pending,    \* harness bookkeeping: what is still to be offered to a replica
    panicked    \* TRUE once a call ended in a Go runtime panic

vars == <<groups, heap, last, pre, pending, panicked>>

----------------------------------------------------------------------------
(* Bounds of the model. *)

\* Event timestamps are drawn from 0..MaxTime.
MaxTime == 2

Timestamps == 0 .. MaxTime

----------------------------------------------------------------------------
(* Values. *)

\* A nil error.
Nil == "<nil>"

\* Participant identifiers: two well-formed ones and a malformed one.
ValidKeys == {"k1", "k2"}
BadKey == "zz"

\* nostr.IsValidPublicKeyHex: a well-formed participant identifier.
IsValidPublicKeyHex(s) == s \in ValidKeys

\* The event kinds the code switches on, kept as opaque discriminators.
KindSimpleGroupMetadata == "KindSimpleGroupMetadata"
KindSimpleGroupAdmins == "KindSimpleGroupAdmins"
KindSimpleGroupMembers == "KindSimpleGroupMembers"
KindSimpleGroupAddUser == "KindSimpleGroupAddUser"
KindSimpleGroupRemoveUser == "KindSimpleGroupRemoveUser"
KindSimpleGroupEditMetadata == "KindSimpleGroupEditMetadata"
KindSimpleGroupAddPermission == "KindSimpleGroupAddPermission"
KindSimpleGroupRemovePermission == "KindSimpleGroupRemovePermission"
KindSimpleGroupDeleteEvent == "KindSimpleGroupDeleteEvent"
KindSimpleGroupEditGroupStatus == "KindSimpleGroupEditGroupStatus"
KindTextNote == "KindTextNote"

\* The closed permission enumeration.
PermissionsMap ==
    {"add-user", "edit-metadata", "delete-event", "remove-user",
     "add-permission", "remove-permission", "edit-group-status"}

\* The nil *Role: the role of a normal member.
EmptyRole == 0

\* Heap addresses of Role objects: one per participant and one to spare, so
\* that an allocation always finds an address no member points to.
Ptrs == 1 .. (Cardinality(ValidKeys) + 1)

\* A Role object freshly made by &Role{Permissions: make(map...)}.
NewRole == [Name |-> "", Permissions |-> {}]

EmptyHeap == [p \in Ptrs |-> NewRole]

\* A Go map that was never made (nil) and one made and empty.
NilMembers == [allocated |-> FALSE, roles |-> [k \in {} |-> EmptyRole]]
NoMembers == [allocated |-> TRUE, roles |-> [k \in {} |-> EmptyRole]]

\* The zero value of Group.
ZeroGroup ==
    [ID |-> "", Name |-> "", Picture |-> "", About |-> "",
     Members |-> NilMembers, Private |-> FALSE, Closed |-> FALSE,
     LastMetadataUpdate |-> 0, LastAdminsUpdate |-> 0, LastMembersUpdate |-> 0]

\* A nostr.Event, as far as this package reads it.
Event(kind, createdAt, content, tags) ==
    [Kind |-> kind, CreatedAt |-> createdAt, Content |-> content, Tags |-> tags]

----------------------------------------------------------------------------
(* nostr.Tags helpers. *)

\* Tag.StartsWith: the tag is at least as long as the prefix, agrees with it
\* on all but the last element, and its element at the last position starts
\* with the prefix's last element.  The model's tokens are never proper
\* prefixes of one another, so "starts with" is "is empty or equal".
StartsWith(tag, prefix) ==
    /\ Len(tag) >= Len(prefix)
    /\ \A i \in 1 .. (Len(prefix) - 1) : tag[i] = prefix[i]
    /\ \/ prefix[Len(prefix)] = ""
       \/ tag[Len(prefix)] = prefix[Len(prefix)]

\* Tags.GetAll: the tags that start with the prefix, in order.
GetAll(tags, prefix) == SelectSeq(tags, LAMBDA t : StartsWith(t, prefix))

\* Tags.GetFirst: the first such tag; HasTag is GetFirst(...) != nil.
HasTag(tags, prefix) == Len(GetAll(tags, prefix)) > 0
GetFirst(tags, prefix) == Head(GetAll(tags, prefix))

\* Tags.GetD: the value of the first d tag, "" when there is none.
GetD(tags) == IF HasTag(tags, <<"d", "">>) THEN GetFirst(tags, <<"d", "">>)[2] ELSE ""

----------------------------------------------------------------------------
(* Group: projections to snapshot events. *)

\* The sequence s followed by tag t when cond holds.
AppendIf(s, cond, t) == IF cond THEN Append(s, t) ELSE s

\* Group.ToMetadataEvent.  The about tag carries group.Name, as written.
ToMetadataEvent(group) ==
    LET t1 == <<<<"d", group.ID>>>>
        t2 == AppendIf(t1, group.Name # "", <<"name", group.Name>>)
        t3 == AppendIf(t2, group.About # "", <<"about", group.Name>>)
        t4 == AppendIf(t3, group.Picture # "", <<"picture", group.Picture>>)
        t5 == Append(t4, IF group.Private THEN <<"private">> ELSE <<"public">>)
        t6 == Append(t5, IF group.Closed THEN <<"closed">> ELSE <<"open">>)
    IN  Event(KindSimpleGroupMetadata, group.LastMetadataUpdate, group.About, t6)

\* The orders in which a Go range statement may visit the keys of a map.
RangeOrders(S) ==
    {o \in [1 .. Cardinality(S) -> S] : \A i, j \in DOMAIN o : i # j => o[i] # o[j]}

\* Group.ToAdminsEvent.  The tag of an admin is made with length 0 and then
\* indexed at 0, 1 and 2, which is an index-out-of-range panic; the event is
\* returned only when no member holds a role.
ToAdminsEvent(group) ==
    IF \E k \in DOMAIN group.Members.roles : group.Members.roles[k] # EmptyRole
    THEN [panic |-> TRUE, events |-> {}]
    ELSE [panic |-> FALSE,
          events |-> {Event(KindSimpleGroupAdmins, group.LastAdminsUpdate, "",
                            <<<<"d", group.ID>>>>)}]

\* Group.ToMembersEvent: one p tag per key of Members, in any range order.
ToMembersEvent(group) ==
    {Event(KindSimpleGroupMembers, group.LastMembersUpdate, "",
           <<<<"d", group.ID>>>> \o [i \in DOMAIN o |-> <<"p", o[i]>>])
        : o \in RangeOrders(DOMAIN group.Members.roles)}

----------------------------------------------------------------------------
(* Group: folding snapshot events. *)

\* MergeInMetadataEvent recording the timestamp before it checks the kind.
MergeInMetadataEvent_StampsFirst(group, evt) ==
    IF evt.CreatedAt <= group.LastMetadataUpdate
    THEN [group |-> group, err |-> "event is older than our last update"]
    ELSE IF evt.Kind # KindSimpleGroupMetadata
    THEN [group |-> [group EXCEPT !.LastMetadataUpdate = evt.CreatedAt],
          err |-> "expected kind"]
    ELSE [group |-> [group EXCEPT !.LastMetadataUpdate = evt.CreatedAt,
                                  !.ID = GetD(evt.Tags)],
          err |-> Nil]

\* Group.MergeInMetadataEvent.
MergeInMetadataEvent(group, evt) ==
    IF evt.Kind # KindSimpleGroupMetadata
    THEN [group |-> group, err |-> "expected kind"]
    ELSE IF evt.CreatedAt <= group.LastMetadataUpdate
    THEN [group |-> group, err |-> "event is older than our last update"]
    ELSE
        LET id == GetD(evt.Tags)
            name == IF HasTag(evt.Tags, <<"name", "">>)
                    THEN GetFirst(evt.Tags, <<"name", "">>)[2] ELSE id
            about == IF HasTag(evt.Tags, <<"about", "">>)
                     THEN GetFirst(evt.Tags, <<"about", "">>)[2] ELSE group.About
            picture == IF HasTag(evt.Tags, <<"picture", "">>)
                       THEN GetFirst(evt.Tags, <<"picture", "">>)[2] ELSE group.Picture
        IN  [group |-> [group EXCEPT
                            !.LastMetadataUpdate = evt.CreatedAt,
                            !.ID = id,
                            !.Name = name,
                            !.About = about,
                            !.Picture = picture,
                            !.Private = group.Private \/ HasTag(evt.Tags, <<"private">>),
                            !.Closed = group.Closed \/ HasTag(evt.Tags, <<"closed">>)],
             err |-> Nil]

\* MergeInAdminsEvent storing every well-formed p entry in Members.
MergeInAdminsEvent_WritesMembers(group, evt) ==
    IF evt.Kind # KindSimpleGroupAdmins
    THEN [group |-> group, err |-> "expected kind"]
    ELSE IF evt.CreatedAt <= group.LastAdminsUpdate
    THEN [group |-> group, err |-> "event is older than our last update"]
    ELSE LET named == {evt.Tags[i][2] : i \in {j \in DOMAIN evt.Tags :
                            /\ Len(evt.Tags[j]) >= 3
                            /\ evt.Tags[j][1] = "p"
                            /\ IsValidPublicKeyHex(evt.Tags[j][2])}}
             roles == group.Members.roles
         IN  [group |-> [group EXCEPT
                            !.LastAdminsUpdate = evt.CreatedAt,
                            !.Members.roles =
                                [k \in DOMAIN roles \cup named |->
                                    IF k \in named THEN EmptyRole ELSE roles[k]]],
              err |-> Nil]

\* MergeInAdminsEvent with the staleness test written < instead of <=.
MergeInAdminsEvent_AcceptsEqual(group, evt) ==
    IF evt.Kind # KindSimpleGroupAdmins
    THEN [group |-> group, err |-> "expected kind"]
    ELSE IF evt.CreatedAt < group.LastAdminsUpdate
    THEN [group |-> group, err |-> "event is older than our last update"]
    ELSE [group |-> [group EXCEPT !.LastAdminsUpdate = evt.CreatedAt], err |-> Nil]

\* Group.MergeInAdminsEvent.  The loop over the tags skips the malformed ones
\* and does nothing with the others.
MergeInAdminsEvent(group, evt) ==
    IF evt.Kind # KindSimpleGroupAdmins
    THEN [group |-> group, err |-> "expected kind"]
    ELSE IF evt.CreatedAt <= group.LastAdminsUpdate
    THEN [group |-> group, err |-> "event is older than our last update"]
    ELSE [group |-> [group EXCEPT !.LastAdminsUpdate = evt.CreatedAt], err |-> Nil]

\* Group.MergeInMembersEvent.  Its loop has no effect either.
MergeInMembersEvent(group, evt) ==
    IF evt.Kind # KindSimpleGroupMembers
    THEN [group |-> group, err |-> "expected kind"]
    ELSE IF evt.CreatedAt <= group.LastMembersUpdate
    THEN [group |-> group, err |-> "event is older than our last update"]
    ELSE [group |-> [group EXCEPT !.LastMembersUpdate = evt.CreatedAt], err |-> Nil]

----------------------------------------------------------------------------
(* Moderation actions: the factories. *)

\* An Action value; NoAction is the nil Action returned with an error.
NoAction == [type |-> "nil"]

\* What a call of GetModerationAction or of a factory ends with.
Returned(action, err) == [panic |-> FALSE, action |-> action, err |-> err]
Panicked == [panic |-> TRUE, action |-> NoAction, err |-> Nil]

\* The second element of every tag of tags that starts with <<name, "">>.
Values(tags, name) ==
    LET all == GetAll(tags, <<name, "">>) IN [i \in DOMAIN all |-> all[i][2]]

\* The elements of a sequence.
Range(seq) == {seq[i] : i \in DOMAIN seq}

\* moderationActionFactories[KindSimpleGroupAddUser]
AddUserFactory(evt) ==
    LET targets == Values(evt.Tags, "p")
    IN  IF \E t \in Range(targets) : ~IsValidPublicKeyHex(t)
        THEN Returned(NoAction, "")
        ELSE IF Len(targets) > 0
        THEN Returned([type |-> "AddUser", Targets |-> targets], Nil)
        ELSE Returned(NoAction, "missing 'p' tags")

\* moderationActionFactories[KindSimpleGroupRemoveUser]
RemoveUserFactory(evt) ==
    LET targets == Values(evt.Tags, "p")
    IN  IF \E t \in Range(targets) : ~IsValidPublicKeyHex(t)
        THEN Returned(NoAction, "invalid public key hex")
        ELSE IF Len(targets) > 0
        THEN Returned([type |-> "RemoveUser", Targets |-> targets], Nil)
        ELSE Returned(NoAction, "missing 'p' tags")

\* moderationActionFactories[KindSimpleGroupEditMetadata]
EditMetadataFactory(evt) ==
    LET field(name) == IF HasTag(evt.Tags, <<name, "">>)
                       THEN GetFirst(evt.Tags, <<name, "">>)[2] ELSE ""
        ok == \/ HasTag(evt.Tags, <<"name", "">>)
              \/ HasTag(evt.Tags, <<"picture", "">>)
              \/ HasTag(evt.Tags, <<"about", "">>)
    IN  IF ok
        THEN Returned([type |-> "EditMetadata",
                       NameValue |-> field("name"),
                       PictureValue |-> field("picture"),
                       AboutValue |-> field("about"),
                       When |-> evt.CreatedAt], Nil)
        ELSE Returned(NoAction, "missing metadata tags")

\* The permission factories without the lookup in PermissionsMap.
PermissionFactory_NoEnumCheck(evt, type) ==
    LET permissions == Values(evt.Tags, "permission")
        targets == Values(evt.Tags, "p")
    IN  IF Len(evt.Tags) = 0
        THEN Panicked
        ELSE IF \E t \in Range(targets) : ~IsValidPublicKeyHex(t)
        THEN Returned(NoAction, "invalid public key hex")
        ELSE IF Len(permissions) > 0 /\ Len(targets) > 0
        THEN Returned([type |-> type, Targets |-> targets,
                       Permissions |-> permissions], Nil)
        ELSE Returned(NoAction, "")

\* The permission factories without the test that a permission is listed.
PermissionFactory_AllowsEmpty(evt, type) ==
    LET permissions == Values(evt.Tags, "permission")
        targets == Values(evt.Tags, "p")
    IN  IF Len(evt.Tags) = 0
        THEN Panicked
        ELSE IF \E perm \in Range(permissions) : perm \notin PermissionsMap
        THEN Returned(NoAction, "unknown permission")
        ELSE IF \E t \in Range(targets) : ~IsValidPublicKeyHex(t)
        THEN Returned(NoAction, "invalid public key hex")
        ELSE IF Len(targets) > 0
        THEN Returned([type |-> type, Targets |-> targets,
                       Permissions |-> permissions], Nil)
        ELSE Returned(NoAction, "")

\* The body shared, line for line, by the add-permission and the
\* remove-permission factory.  make([]Permission, 0, nTags-1) panics when
\* the event has no tag at all (negative capacity).
PermissionFactory(evt, type) ==
    LET permissions == Values(evt.Tags, "permission")
        targets == Values(evt.Tags, "p")
    IN  IF Len(evt.Tags) = 0
        THEN Panicked
        ELSE IF \E perm \in Range(permissions) : perm \notin PermissionsMap
        THEN Returned(NoAction, "unknown permission")
        ELSE IF \E t \in Range(targets) : ~IsValidPublicKeyHex(t)
        THEN Returned(NoAction, "invalid public key hex")
        ELSE IF Len(permissions) > 0 /\ Len(targets) > 0
        THEN Returned([type |-> type, Targets |-> targets,
                       Permissions |-> permissions], Nil)
        ELSE Returned(NoAction, "")

\* moderationActionFactories[KindSimpleGroupAddPermission]
AddPermissionFactory(evt) == PermissionFactory(evt, "AddPermission")

\* moderationActionFactories[KindSimpleGroupRemovePermission]
RemovePermissionFactory(evt) == PermissionFactory(evt, "RemovePermission")

\* moderationActionFactories[KindSimpleGroupDeleteEvent]
DeleteEventFactory(evt) ==
    LET targets == Values(evt.Tags, "e")
    IN  IF Len(targets) = 0
        THEN Returned(NoAction, "missing 'e' tag")
        ELSE IF \E t \in Range(targets) : ~IsValidPublicKeyHex(t)
        THEN Returned(NoAction, "invalid event id hex")
        ELSE Returned([type |-> "DeleteEvent", Targets |-> targets], Nil)

\* The edit-group-status factory without its rejection of private groups.
EditGroupStatusFactory_AllowsPrivate(evt) ==
    LET egs == [type |-> "EditGroupStatus",
                Public |-> HasTag(evt.Tags, <<"public">>),
                Private |-> HasTag(evt.Tags, <<"private">>),
                Open |-> HasTag(evt.Tags, <<"open">>),
                Closed |-> HasTag(evt.Tags, <<"closed">>),
                When |-> evt.CreatedAt]
    IN  IF egs.Public /\ egs.Private
        THEN Returned(NoAction, "contradiction")
        ELSE IF egs.Open /\ egs.Closed
        THEN Returned(NoAction, "contradiction")
        ELSE Returned(egs, Nil)

\* The edit-group-status factory without its second contradiction test.
EditGroupStatusFactory_OnePair(evt) ==
    LET egs == [type |-> "EditGroupStatus",
                Public |-> HasTag(evt.Tags, <<"public">>),
                Private |-> HasTag(evt.Tags, <<"private">>),
                Open |-> HasTag(evt.Tags, <<"open">>),
                Closed |-> HasTag(evt.Tags, <<"closed">>),
                When |-> evt.CreatedAt]
    IN  IF egs.Public /\ egs.Private
        THEN Returned(NoAction, "contradiction")
        ELSE IF egs.Private
        THEN Returned(NoAction, "private groups not yet supported")
        ELSE Returned(egs, Nil)

\* moderationActionFactories[KindSimpleGroupEditGroupStatus]
EditGroupStatusFactory(evt) ==
    LET egs == [type |-> "EditGroupStatus",
                Public |-> HasTag(evt.Tags, <<"public">>),
                Private |-> HasTag(evt.Tags, <<"private">>),
                Open |-> HasTag(evt.Tags, <<"open">>),
                Closed |-> HasTag(evt.Tags, <<"closed">>),
                When |-> evt.CreatedAt]
    IN  IF egs.Public /\ egs.Private
        THEN Returned(NoAction, "contradiction")
        ELSE IF egs.Open /\ egs.Closed
        THEN Returned(NoAction, "contradiction")
        ELSE IF egs.Private
        THEN Returned(NoAction, "private groups not yet supported")
        ELSE Returned(egs, Nil)

\* GetModerationAction: the factory of the event's kind, if there is one.
GetModerationAction(evt) ==
    CASE evt.Kind = KindSimpleGroupAddUser -> AddUserFactory(evt)
      [] evt.Kind = KindSimpleGroupRemoveUser -> RemoveUserFactory(evt)
      [] evt.Kind = KindSimpleGroupEditMetadata -> EditMetadataFactory(evt)
      [] evt.Kind = KindSimpleGroupAddPermission -> AddPermissionFactory(evt)
      [] evt.Kind = KindSimpleGroupRemovePermission -> RemovePermissionFactory(evt)
      [] evt.Kind = KindSimpleGroupDeleteEvent -> DeleteEventFactory(evt)
      [] evt.Kind = KindSimpleGroupEditGroupStatus -> EditGroupStatusFactory(evt)
      [] OTHER -> Returned(NoAction, "not a supported moderation action")

----------------------------------------------------------------------------
(* Moderation actions: Apply. *)

\* What an Apply leaves: the group, the heap, and whether it panicked.
Applied(group, h) == [group |-> group, heap |-> h, panic |-> FALSE]
ApplyPanicked(group, h) == [group |-> group, heap |-> h, panic |-> TRUE]

\* The roles map with key k set to role pointer p.
SetRole(roles, k, p) ==
    [x \in DOMAIN roles \cup {k} |-> IF x = k THEN p ELSE roles[x]]

\* The roles map with key k deleted.
DeleteKey(roles, k) == [x \in DOMAIN roles \ {k} |-> roles[x]]

\* The address of a newly allocated Role: one no member points to.
NewPtr(roles) ==
    CHOOSE p \in Ptrs :
        /\ \A k \in DOMAIN roles : roles[k] # p
        /\ \A q \in Ptrs : (\A k \in DOMAIN roles : roles[k] # q) => p <= q

\* DeleteEvent.Apply
DeleteEventApply(a, group, h) == Applied(group, h)

\* AddUser.Apply storing a new empty Role instead of the EmptyRole sentinel.
RECURSIVE AddUserApply_NewRoleEach(_, _, _)
AddUserApply_NewRoleEach(a, group, h) ==
    IF Len(a.Targets) = 0
    THEN Applied(group, h)
    ELSE IF ~group.Members.allocated
    THEN ApplyPanicked(group, h)
    ELSE LET role == NewPtr(group.Members.roles) IN
         AddUserApply_NewRoleEach(
            [a EXCEPT !.Targets = Tail(a.Targets)],
            [group EXCEPT !.Members.roles = SetRole(@, Head(a.Targets), role)],
            [h EXCEPT ![role] = NewRole])

\* AddUser.Apply: a write to a nil map panics.
RECURSIVE AddUserApply(_, _, _)
AddUserApply(a, group, h) ==
    IF Len(a.Targets) = 0
    THEN Applied(group, h)
    ELSE IF ~group.Members.allocated
    THEN ApplyPanicked(group, h)
    ELSE AddUserApply(
            [a EXCEPT !.Targets = Tail(a.Targets)],
            [group EXCEPT !.Members.roles = SetRole(@, Head(a.Targets), EmptyRole)],
            h)

\* RemoveUser.Apply deleting only the members that hold the sentinel.
RECURSIVE RemoveUserApply_KeepsAdmins(_, _, _)
RemoveUserApply_KeepsAdmins(a, group, h) ==
    IF Len(a.Targets) = 0
    THEN Applied(group, h)
    ELSE LET target == Head(a.Targets)
             roles == group.Members.roles
         IN  RemoveUserApply_KeepsAdmins(
                [a EXCEPT !.Targets = Tail(a.Targets)],
                IF target \in DOMAIN roles /\ roles[target] # EmptyRole
                THEN group
                ELSE [group EXCEPT !.Members.roles = DeleteKey(@, target)],
                h)

\* RemoveUser.Apply: delete on a nil map is a no-op.
RECURSIVE RemoveUserApply(_, _, _)
RemoveUserApply(a, group, h) ==
    IF Len(a.Targets) = 0
    THEN Applied(group, h)
    ELSE RemoveUserApply(
            [a EXCEPT !.Targets = Tail(a.Targets)],
            [group EXCEPT !.Members.roles = DeleteKey(@, Head(a.Targets))],
            h)

\* EditMetadata.Apply without its last assignment.
EditMetadataApply_KeepsTimestamp(a, group, h) ==
    Applied([group EXCEPT !.Name = a.NameValue,
                          !.Picture = a.PictureValue,
                          !.About = a.AboutValue], h)

\* EditMetadata.Apply keeping a field whose value in the action is empty.
EditMetadataApply_KeepsAbsent(a, group, h) ==
    Applied([group EXCEPT !.Name = IF a.NameValue = "" THEN @ ELSE a.NameValue,
                          !.Picture = IF a.PictureValue = "" THEN @ ELSE a.PictureValue,
                          !.About = IF a.AboutValue = "" THEN @ ELSE a.AboutValue,
                          !.LastMetadataUpdate = a.When], h)

\* EditMetadata.Apply
EditMetadataApply(a, group, h) ==
    Applied([group EXCEPT !.Name = a.NameValue,
                          !.Picture = a.PictureValue,
                          !.About = a.AboutValue,
                          !.LastMetadataUpdate = a.When], h)

\* AddPermission.Apply assigning the listed permissions instead of adding them.
RECURSIVE AddPermissionApply_Overwrites(_, _, _)
AddPermissionApply_Overwrites(a, group, h) ==
    IF Len(a.Targets) = 0
    THEN Applied(group, h)
    ELSE
        LET target == Head(a.Targets)
            roles == group.Members.roles
            fresh == target \notin DOMAIN roles \/ roles[target] = EmptyRole
            role == IF fresh THEN NewPtr(roles) ELSE roles[target]
            h1 == [h EXCEPT ![role] = IF fresh THEN NewRole ELSE @]
            h2 == [h1 EXCEPT ![role].Permissions = Range(a.Permissions)]
        IN  IF fresh /\ ~group.Members.allocated
            THEN ApplyPanicked(group, h)
            ELSE AddPermissionApply_Overwrites(
                    [a EXCEPT !.Targets = Tail(a.Targets)],
                    [group EXCEPT !.Members.roles = SetRole(@, target, role)],
                    h2)

\* AddPermission.Apply with the new Role made once, before the loop, and
\* given to every target that has none.
RECURSIVE AddPermissionLoop_SharedRole(_, _, _, _)
AddPermissionLoop_SharedRole(a, group, h, shared) ==
    IF Len(a.Targets) = 0
    THEN Applied(group, h)
    ELSE
        LET target == Head(a.Targets)
            roles == group.Members.roles
            fresh == target \notin DOMAIN roles \/ roles[target] = EmptyRole
            role == IF fresh THEN shared ELSE roles[target]
            h2 == [h EXCEPT ![role].Permissions = @ \cup Range(a.Permissions)]
        IN  IF fresh /\ ~group.Members.allocated
            THEN ApplyPanicked(group, h)
            ELSE AddPermissionLoop_SharedRole(
                    [a EXCEPT !.Targets = Tail(a.Targets)],
                    [group EXCEPT !.Members.roles = SetRole(@, target, role)],
                    h2, shared)

AddPermissionApply_SharedRole(a, group, h) ==
    LET shared == NewPtr(group.Members.roles) IN
    AddPermissionLoop_SharedRole(a, group, [h EXCEPT ![shared] = NewRole], shared)

\* AddPermission.Apply
RECURSIVE AddPermissionApply(_, _, _)
AddPermissionApply(a, group, h) ==
    IF Len(a.Targets) = 0
    THEN Applied(group, h)
    ELSE
        LET target == Head(a.Targets)
            roles == group.Members.roles
            fresh == target \notin DOMAIN roles \/ roles[target] = EmptyRole
            role == IF fresh THEN NewPtr(roles) ELSE roles[target]
            h1 == IF fresh THEN [h EXCEPT ![role] = NewRole] ELSE h
            h2 == [h1 EXCEPT ![role].Permissions = @ \cup Range(a.Permissions)]
        IN  IF fresh /\ ~group.Members.allocated
            THEN ApplyPanicked(group, h)
            ELSE AddPermissionApply(
                    [a EXCEPT !.Targets = Tail(a.Targets)],
                    [group EXCEPT !.Members.roles = SetRole(@, target, role)],
                    h2)

\* RemovePermission.Apply without the demotion to EmptyRole.
RECURSIVE RemovePermissionApply_NoDemote(_, _, _)
RemovePermissionApply_NoDemote(a, group, h) ==
    IF Len(a.Targets) = 0
    THEN Applied(group, h)
    ELSE
        LET target == Head(a.Targets)
            roles == group.Members.roles
            rest == [a EXCEPT !.Targets = Tail(a.Targets)]
        IN  IF target \notin DOMAIN roles \/ roles[target] = EmptyRole
            THEN RemovePermissionApply_NoDemote(rest, group, h)
            ELSE RemovePermissionApply_NoDemote(
                    rest, group,
                    [h EXCEPT ![roles[target]].Permissions = @ \ Range(a.Permissions)])

\* RemovePermission.Apply demoting every role left without permissions,
\* named or not.
RECURSIVE RemovePermissionApply_DemotesNamed(_, _, _)
RemovePermissionApply_DemotesNamed(a, group, h) ==
    IF Len(a.Targets) = 0
    THEN Applied(group, h)
    ELSE
        LET target == Head(a.Targets)
            roles == group.Members.roles
            rest == [a EXCEPT !.Targets = Tail(a.Targets)]
        IN  IF target \notin DOMAIN roles \/ roles[target] = EmptyRole
            THEN RemovePermissionApply_DemotesNamed(rest, group, h)
            ELSE
                LET role == roles[target]
                    h1 == [h EXCEPT ![role].Permissions = @ \ Range(a.Permissions)]
                IN  RemovePermissionApply_DemotesNamed(
                        rest,
                        IF h1[role].Permissions = {}
                        THEN [group EXCEPT !.Members.roles = SetRole(@, target, EmptyRole)]
                        ELSE group,
                        h1)

\* RemovePermission.Apply
RECURSIVE RemovePermissionApply(_, _, _)
RemovePermissionApply(a, group, h) ==
    IF Len(a.Targets) = 0
    THEN Applied(group, h)
    ELSE
        LET target == Head(a.Targets)
            roles == group.Members.roles
            rest == [a EXCEPT !.Targets = Tail(a.Targets)]
        IN  IF target \notin DOMAIN roles \/ roles[target] = EmptyRole
            THEN RemovePermissionApply(rest, group, h)
            ELSE
                LET role == roles[target]
                    h1 == [h EXCEPT ![role].Permissions = @ \ Range(a.Permissions)]
                    demote == h1[role].Name = "" /\ h1[role].Permissions = {}
                IN  RemovePermissionApply(
                        rest,
                        IF demote
                        THEN [group EXCEPT !.Members.roles = SetRole(@, target, EmptyRole)]
                        ELSE group,
                        h1)

\* EditGroupStatus.Apply assigning both flags from the action's fields.
EditGroupStatusApply_AssignsFlags(a, group, h) ==
    Applied([group EXCEPT
                !.Private = a.Private /\ ~a.Public,
                !.Closed = a.Closed /\ ~a.Open,
                !.LastMetadataUpdate = a.When], h)

\* EditGroupStatus.Apply
EditGroupStatusApply(a, group, h) ==
    Applied([group EXCEPT
                !.Private = IF a.Public THEN FALSE ELSE IF a.Private THEN TRUE ELSE @,
                !.Closed = IF a.Open THEN FALSE ELSE IF a.Closed THEN TRUE ELSE @,
                !.LastMetadataUpdate = a.When], h)

\* Action.Apply: the method of the action's dynamic type.
Apply(a, group, h) ==
    CASE a.type = "AddUser" -> AddUserApply(a, group, h)
      [] a.type = "RemoveUser" -> RemoveUserApply(a, group, h)
      [] a.type = "EditMetadata" -> EditMetadataApply(a, group, h)
      [] a.type = "AddPermission" -> AddPermissionApply(a, group, h)
      [] a.type = "RemovePermission" -> RemovePermissionApply(a, group, h)
      [] a.type = "DeleteEvent" -> DeleteEventApply(a, group, h)
      [] a.type = "EditGroupStatus" -> EditGroupStatusApply(a, group, h)

\* The heap after garbage collection: a Role no member points to is gone,
\* and its address reads as a new Role when it is next allocated.
Collect(h, gs) ==
    [p \in Ptrs |->
        IF \E r \in DOMAIN gs : \E k \in DOMAIN gs[r].Members.roles :
                gs[r].Members.roles[k] = p
        THEN h[p] ELSE NewRole]

----------------------------------------------------------------------------
(* The calls a program makes on a Group, as steps. *)

NoEvent == Event("", 0, "", <<>>)

\* The record of a call: op on replica r with input evt (for a projection,
\* the event it returned); it returned err and, for GetModerationAction and
\* Apply, the action returned or applied.
Call(op, r, evt, action, err) ==
    [op |-> op, r |-> r, evt |-> evt, action |-> action, err |-> err]

NoCall == Call("none", "", NoEvent, NoAction, Nil)

\* The state a call starts from, and the name of the call before it.
Snapshot == [groups |-> groups, heap |-> heap, op |-> last.op]

\* The caller folds one event at a time: it takes the next one only when it
\* is done with the previous one.
Idle == last = NoCall

\* group.MergeInMetadataEvent(evt) on replica r
CallMergeInMetadataEvent(r, evt) ==
    LET res == MergeInMetadataEvent(groups[r], evt) IN
    /\ ~panicked
    /\ groups' = [groups EXCEPT ![r] = res.group]
    /\ last' = Call("MergeInMetadataEvent", r, evt, NoAction, res.err)
    /\ pre' = Snapshot
    /\ UNCHANGED <<heap, panicked>>

\* group.MergeInAdminsEvent(evt) on replica r
CallMergeInAdminsEvent(r, evt) ==
    LET res == MergeInAdminsEvent(groups[r], evt) IN
    /\ ~panicked
    /\ groups' = [groups EXCEPT ![r] = res.group]
    /\ last' = Call("MergeInAdminsEvent", r, evt, NoAction, res.err)
    /\ pre' = Snapshot
    /\ UNCHANGED <<heap, panicked>>

\* group.MergeInMembersEvent(evt) on replica r
CallMergeInMembersEvent(r, evt) ==
    LET res == MergeInMembersEvent(groups[r], evt) IN
    /\ ~panicked
    /\ groups' = [groups EXCEPT ![r] = res.group]
    /\ last' = Call("MergeInMembersEvent", r, evt, NoAction, res.err)
    /\ pre' = Snapshot
    /\ UNCHANGED <<heap, panicked>>

\* evt := group.ToMetadataEvent() on replica r: a value receiver, no write.
CallToMetadataEvent(r) ==
    /\ ~panicked
    /\ last' = Call("ToMetadataEvent", r, ToMetadataEvent(groups[r]), NoAction, Nil)
    /\ pre' = Snapshot
    /\ UNCHANGED <<groups, heap, panicked>>

\* evt := group.ToAdminsEvent() on replica r
CallToAdminsEvent(r) ==
    LET res == ToAdminsEvent(groups[r]) IN
    /\ ~panicked
    /\ IF res.panic
       THEN /\ last' = Call("ToAdminsEvent", r, NoEvent, NoAction, Nil)
            /\ panicked' = TRUE
       ELSE /\ \E evt \in res.events :
                    last' = Call("ToAdminsEvent", r, evt, NoAction, Nil)
            /\ UNCHANGED panicked
    /\ pre' = Snapshot
    /\ UNCHANGED <<groups, heap>>

\* evt := group.ToMembersEvent() on replica r
CallToMembersEvent(r) ==
    /\ ~panicked
    /\ \E evt \in ToMembersEvent(groups[r]) :
            last' = Call("ToMembersEvent", r, evt, NoAction, Nil)
    /\ pre' = Snapshot
    /\ UNCHANGED <<groups, heap, panicked>>

\* action, err := GetModerationAction(evt): reads and writes no Group.
CallGetModerationAction(evt) ==
    LET res == GetModerationAction(evt) IN
    /\ ~panicked
    /\ last' = Call("GetModerationAction", "", evt, res.action, res.err)
    /\ panicked' = res.panic
    /\ pre' = Snapshot
    /\ UNCHANGED <<groups, heap>>

\* action.Apply(&group) on replica r, for the action the caller holds: the
\* one GetModerationAction last returned without an error.
CallApply(r) ==
    /\ ~panicked
    /\ last.op \in {"GetModerationAction", "Apply"}
    /\ last.action # NoAction
    /\ LET res == Apply(last.action, groups[r], heap)
           gs == [groups EXCEPT ![r] = res.group]
       IN  /\ groups' = gs
           /\ heap' = Collect(res.heap, gs)
           /\ panicked' = res.panic
    /\ last' = Call("Apply", r, last.evt, last.action, Nil)
    /\ pre' = Snapshot

\* The caller is done with the event: the event, the action and the error go
\* out of scope, and the Group is all that is kept.
Done ==
    /\ ~panicked
    /\ ~Idle
    /\ last' = NoCall
    /\ pre' = [groups |-> groups, heap |-> heap, op |-> "none"]
    /\ UNCHANGED <<groups, heap, pending, panicked>>

----------------------------------------------------------------------------
(* The events offered to the program. *)

\* Metadata snapshots: a d tag, optional name, about and picture, and the
\* bare status markers (none, or one of each pair).
MetadataTags ==
    {<<<<"d", "g1">>>>,
     <<<<"d", "g2">>>>,
     <<<<"d", "g1">>, <<"name", "n1">>>>,
     <<<<"d", "g1">>, <<"about", "a1">>, <<"picture", "p1">>>>,
     <<<<"d", "g1">>, <<"name", "n1">>, <<"about", "a1">>, <<"picture", "p1">>,
       <<"private">>, <<"closed">>>>,
     <<<<"d", "g1">>, <<"public">>, <<"open">>>>,
     <<<<"d", "g2">>, <<"private">>, <<"open">>>>,
     <<<<"d", "g1">>, <<"public">>, <<"closed">>>>}

MetadataEvents ==
    {Event(KindSimpleGroupMetadata, t, "", tags) : t \in Timestamps, tags \in MetadataTags}

\* Admins and members snapshots: well-formed and malformed p entries.
AdminsEvents ==
    {Event(KindSimpleGroupAdmins, t, "", tags) :
        t \in Timestamps,
        tags \in {<<<<"d", "g1">>, <<"p", "k1", "admin", "add-user">>>>,
                  <<<<"d", "g1">>, <<"p", BadKey, "admin", "add-user">>>>}}

MembersEvents ==
    {Event(KindSimpleGroupMembers, t, "", tags) :
        t \in Timestamps,
        tags \in {<<<<"d", "g1">>, <<"p", "k1">>, <<"p", "k2">>>>,
                  <<<<"d", "g1">>, <<"p", BadKey>>>>}}

\* An event of another kind, newer than anything a Group has seen.
WrongKindFor(kind) ==
    {Event(k, MaxTime + 1, "", <<<<"d", "g2">>, <<"name", "n1">>, <<"closed">>>>) :
        k \in {KindSimpleGroupMetadata, KindSimpleGroupAdmins,
               KindSimpleGroupMembers} \ {kind}}

\* Edit-metadata events: any of name, about, picture, or none of them.
EditMetadataEvents ==
    {Event(KindSimpleGroupEditMetadata, t, "", tags) :
        t \in Timestamps,
        tags \in {<<>>,
                  <<<<"name", "n1">>>>,
                  <<<<"about", "a1">>, <<"picture", "p1">>>>,
                  <<<<"name", "n1">>, <<"about", "a1">>, <<"picture", "p1">>>>}}

\* Edit-group-status events: sets of the four bare markers.
EditGroupStatusEvents ==
    {Event(KindSimpleGroupEditGroupStatus, t, "", tags) :
        t \in Timestamps,
        tags \in {<<>>,
                  <<<<"public">>>>,
                  <<<<"closed">>>>,
                  <<<<"public">>, <<"open">>>>,
                  <<<<"private">>>>,
                  <<<<"public">>, <<"private">>>>,
                  <<<<"open">>, <<"closed">>>>,
                  <<<<"public">>, <<"private">>, <<"open">>, <<"closed">>>>}}

\* Add-user and remove-user events.
UserTags ==
    {<<>>, <<<<"p", "k1">>>>, <<<<"p", "k2">>>>, <<<<"p", "k1">>, <<"p", "k2">>>>,
     <<<<"p", "k1">>, <<"p", "k1">>>>, <<<<"p", "k1">>, <<"p", BadKey>>>>}

AddUserEvents == {Event(KindSimpleGroupAddUser, 1, "", tags) : tags \in UserTags}
RemoveUserEvents == {Event(KindSimpleGroupRemoveUser, 1, "", tags) : tags \in UserTags}

\* Add-permission and remove-permission events.
PermissionTags ==
    {<<>>,
     <<<<"p", "k1">>>>,
     <<<<"permission", "add-user">>>>,
     <<<<"permission", "add-user">>, <<"p", "k1">>>>,
     <<<<"permission", "edit-metadata">>, <<"p", "k1">>>>,
     <<<<"permission", "add-user">>, <<"p", "k2">>>>,
     <<<<"permission", "add-user">>, <<"permission", "edit-metadata">>,
       <<"p", "k1">>, <<"p", "k2">>>>,
     <<<<"permission", "edit-metadata">>, <<"p", "k1">>, <<"p", "k2">>>>,
     <<<<"permission", "add-user">>, <<"p", "k1">>, <<"p", "k1">>>>,
     <<<<"permission", "grant-all">>, <<"p", "k1">>>>,
     <<<<"permission", "add-user">>, <<"p", BadKey>>>>}

AddPermissionEvents ==
    {Event(KindSimpleGroupAddPermission, 1, "", tags) : tags \in PermissionTags}
RemovePermissionEvents ==
    {Event(KindSimpleGroupRemovePermission, 1, "", tags) : tags \in PermissionTags}

\* Delete-event events, and an event of a kind without a factory.
DeleteEventEvents ==
    {Event(KindSimpleGroupDeleteEvent, 1, "", tags) :
        tags \in {<<>>, <<<<"e", "k1">>>>, <<<<"e", BadKey>>>>}}

OtherEvents == {Event(KindTextNote, 1, "hello", <<>>)}

----------------------------------------------------------------------------
(* Spec: one replica folding snapshots and metadata/status edits. *)

Replica == "relay"

\* A Group as a relay makes it: zero but for an allocated Members map.
FreshGroup == [ZeroGroup EXCEPT !.Members = NoMembers]

Init ==
    /\ groups = [r \in {Replica} |-> FreshGroup]
    /\ heap = EmptyHeap
    /\ last = NoCall
    /\ pre = [groups |-> groups, heap |-> heap, op |-> "none"]
    /\ pending = [r \in {Replica} |-> {}]
    /\ panicked = FALSE

MergeMetadata ==
    /\ Idle
    /\ \E evt \in MetadataEvents \cup WrongKindFor(KindSimpleGroupMetadata) :
            CallMergeInMetadataEvent(Replica, evt)
    /\ UNCHANGED pending

MergeAdmins ==
    /\ Idle
    /\ \E evt \in AdminsEvents \cup WrongKindFor(KindSimpleGroupAdmins) :
            CallMergeInAdminsEvent(Replica, evt)
    /\ UNCHANGED pending

MergeMembers ==
    /\ Idle
    /\ \E evt \in MembersEvents \cup WrongKindFor(KindSimpleGroupMembers) :
            CallMergeInMembersEvent(Replica, evt)
    /\ UNCHANGED pending

ParseEdit ==
    /\ Idle
    /\ \E evt \in EditMetadataEvents \cup EditGroupStatusEvents \cup OtherEvents :
            CallGetModerationAction(evt)
    /\ UNCHANGED pending

ApplyAction == CallApply(Replica) /\ UNCHANGED pending

Next ==
    \/ MergeMetadata
    \/ MergeAdmins
    \/ MergeMembers
    \/ ParseEdit
    \/ ApplyAction
    \/ Done

Spec == Init /\ [][Next]_vars

\* The replica's Group now and before the last call.
Now == groups[Replica]
Before == pre.groups[Replica]

MergeOps == {"MergeInMetadataEvent", "MergeInAdminsEvent", "MergeInMembersEvent"}

HasBoth(evt, m1, m2) == HasTag(evt.Tags, <<m1>>) /\ HasTag(evt.Tags, <<m2>>)

\* An edit-group-status event that asserts both markers of a pair.
Contradictory(evt) ==
    /\ evt.Kind = KindSimpleGroupEditGroupStatus
    /\ HasBoth(evt, "public", "private") \/ HasBoth(evt, "open", "closed")

----------------------------------------------------------------------------
(* Claims checked under Spec. *)

\* C1: a MergeInMetadataEvent, MergeInAdminsEvent or MergeInMembersEvent call
\* leaves none of the three category timestamps smaller than it was, and a
\* call whose event timestamp is less than or equal to the current timestamp
\* of its category returns an error and leaves that timestamp as it was.
C1_MergeMonotone ==
    last.op \in MergeOps =>
        /\ Now.LastMetadataUpdate >= Before.LastMetadataUpdate
        /\ Now.LastAdminsUpdate >= Before.LastAdminsUpdate
        /\ Now.LastMembersUpdate >= Before.LastMembersUpdate
        /\ (last.op = "MergeInMetadataEvent"
                /\ last.evt.CreatedAt <= Before.LastMetadataUpdate)
            => last.err # Nil /\ Now.LastMetadataUpdate = Before.LastMetadataUpdate
        /\ (last.op = "MergeInAdminsEvent"
                /\ last.evt.CreatedAt <= Before.LastAdminsUpdate)
            => last.err # Nil /\ Now.LastAdminsUpdate = Before.LastAdminsUpdate
        /\ (last.op = "MergeInMembersEvent"
                /\ last.evt.CreatedAt <= Before.LastMembersUpdate)
            => last.err # Nil /\ Now.LastMembersUpdate = Before.LastMembersUpdate

\* C1 witness: an admins snapshot of the right kind, stamped exactly as the
\* last accepted one, has been offered and rejected.
C1_Witness ==
    /\ last.op = "MergeInAdminsEvent"
    /\ last.evt.Kind = KindSimpleGroupAdmins
    /\ Before.LastAdminsUpdate > 0
    /\ last.evt.CreatedAt = Before.LastAdminsUpdate
    /\ last.err # Nil

\* C3 as stated: no step leaves LastMetadataUpdate smaller than it was.
C3_NeverDecreases == Now.LastMetadataUpdate >= Before.LastMetadataUpdate

\* C3 as amended: a MergeInMetadataEvent call leaves LastMetadataUpdate no
\* smaller than it was; an Apply of EditMetadata or EditGroupStatus sets it
\* to the action's When whatever it was before (so it may decrease);
\* MergeInAdminsEvent, MergeInMembersEvent and GetModerationAction leave it.
C3_Amended ==
    /\ last.op = "MergeInMetadataEvent"
        => Now.LastMetadataUpdate >= Before.LastMetadataUpdate
    /\ (last.op = "Apply" /\ last.action.type \in {"EditMetadata", "EditGroupStatus"})
        => Now.LastMetadataUpdate = last.action.When
    /\ (last.op \notin {"MergeInMetadataEvent", "Apply"})
        => Now.LastMetadataUpdate = Before.LastMetadataUpdate

\* C3 witness: an EditMetadata action older than the recorded timestamp has
\* been applied and has moved the timestamp back.
C3_Witness ==
    /\ last.op = "Apply"
    /\ last.action.type = "EditMetadata"
    /\ last.action.When < Before.LastMetadataUpdate
    /\ Now.LastMetadataUpdate < Before.LastMetadataUpdate

\* C4: when a MergeIn*Event call returns an error, every field of the Group
\* (and every Role its Members point to) is as before the call; and a
\* GetModerationAction call that returns an error changes no Group.
C4_AtomicRejection ==
    (last.op \in MergeOps \cup {"GetModerationAction"} /\ last.err # Nil)
        => groups = pre.groups /\ heap = pre.heap

\* C4 witness: a metadata fold was offered an event of another kind that is
\* newer than its last update, and rejected it.
C4_Witness ==
    /\ last.op = "MergeInMetadataEvent"
    /\ last.evt.Kind # KindSimpleGroupMetadata
    /\ last.evt.CreatedAt > Before.LastMetadataUpdate
    /\ Before.LastMetadataUpdate > 0
    /\ last.err # Nil

\* C5 as stated: once Group.ID is set, no call changes it.
C5_IdImmutable == Before.ID # "" => Now.ID = Before.ID

\* C10: an edit-group-status event carrying both public and private, or both
\* open and closed, makes GetModerationAction return an error and no action
\* and change no Group; and no Apply is ever made for such an event.
C10_ContradictionRejected ==
    Contradictory(last.evt) =>
        /\ last.op = "GetModerationAction"
        /\ last.err # Nil
        /\ last.action = NoAction
        /\ groups = pre.groups

\* C10 witness: GetModerationAction was given an event whose only
\* contradiction is open together with closed.
C10_Witness ==
    /\ last.op = "GetModerationAction"
    /\ HasBoth(last.evt, "open", "closed")
    /\ ~HasTag(last.evt.Tags, <<"private">>)
    /\ last.err = "contradiction"

\* C11: GetModerationAction never returns an EditGroupStatus action whose
\* Private field is true, and no Apply of an action it returned makes
\* Group.Private true when it was false.
C11_NoPrivateByAction ==
    /\ (last.op \in {"GetModerationAction", "Apply"}
            /\ last.action.type = "EditGroupStatus")
        => ~last.action.Private
    /\ (last.op = "Apply" /\ ~Before.Private) => ~Now.Private

\* C11 witness: GetModerationAction was given an edit-group-status event
\* with the private marker and no public marker, and rejected it.
C11_Witness ==
    /\ last.op = "GetModerationAction"
    /\ last.evt.Kind = KindSimpleGroupEditGroupStatus
    /\ HasTag(last.evt.Tags, <<"private">>)
    /\ ~HasTag(last.evt.Tags, <<"public">>)
    /\ last.err = "private groups not yet supported"
    /\ last.action = NoAction

\* C21: after MergeInMetadataEvent accepts an event, Private is true exactly
\* when the event carries the private marker and Closed is true exactly
\* when it carries the closed marker, whatever the flags were before.
C21_FlagsFollowSnapshot ==
    (last.op = "MergeInMetadataEvent" /\ last.err = Nil) =>
        /\ Now.Private = HasTag(last.evt.Tags, <<"private">>)
        /\ Now.Closed = HasTag(last.evt.Tags, <<"closed">>)

\* A p entry of the snapshot, as the fold's loop selects them, that names a
\* malformed participant identifier.
HasMalformedEntry(evt, minLen) ==
    \E i \in DOMAIN evt.Tags :
        /\ Len(evt.Tags[i]) >= minLen
        /\ evt.Tags[i][1] = "p"
        /\ ~IsValidPublicKeyHex(evt.Tags[i][2])

\* C23: MergeInAdminsEvent and MergeInMembersEvent given an event with a
\* malformed participant identifier do not advance the category timestamp.
C23_StampOnlyIfValid ==
    /\ (last.op = "MergeInAdminsEvent" /\ HasMalformedEntry(last.evt, 3))
        => Now.LastAdminsUpdate = Before.LastAdminsUpdate
    /\ (last.op = "MergeInMembersEvent" /\ HasMalformedEntry(last.evt, 2))
        => Now.LastMembersUpdate = Before.LastMembersUpdate

----------------------------------------------------------------------------
(* SpecConverge: two fresh replicas are each offered the same set of       *)
(* metadata snapshots, pairwise distinct in timestamp, in any order.       *)

Observer == "client"

Replicas == {Replica, Observer}

\* The sets of two metadata snapshots with distinct timestamps.
EventSets ==
    {{x[1], x[2]} :
        x \in {y \in MetadataEvents \X MetadataEvents : y[1].CreatedAt < y[2].CreatedAt}}

InitConverge ==
    /\ groups = [r \in Replicas |-> FreshGroup]
    /\ heap = EmptyHeap
    /\ last = NoCall
    /\ pre = [groups |-> groups, heap |-> heap, op |-> "none"]
    /\ pending \in {[r \in Replicas |-> S] : S \in EventSets}
    /\ panicked = FALSE

\* Replica r is offered one of the events it has not been offered yet.
Offer(r) ==
    /\ Idle
    /\ \E evt \in pending[r] :
            /\ CallMergeInMetadataEvent(r, evt)
            /\ pending' = [pending EXCEPT ![r] = @ \ {evt}]

NextConverge ==
    \/ \E r \in Replicas : Offer(r)
    \/ Done

SpecConverge == InitConverge /\ [][NextConverge]_vars

\* What C2 compares of a Group.
MetadataOf(g) ==
    <<g.ID, g.Name, g.About, g.Picture, g.Private, g.Closed, g.LastMetadataUpdate>>

\* C2 as stated: once both replicas have been offered every event of the
\* set, in whatever orders, they agree on ID, Name, About, Picture, Private,
\* Closed and LastMetadataUpdate.
C2_Converges ==
    (\A r \in Replicas : pending[r] = {}) => MetadataOf(groups[Replica]) = MetadataOf(groups[Observer])

----------------------------------------------------------------------------
(* SpecRoundTrip: a Group is projected to its three snapshot events and    *)
(* the events are folded into a fresh Group.                               *)

Original == "original"
Target == "fresh"

Categories == {"metadata", "admins", "members"}

\* An unnamed Role with one permission, as AddPermission leaves it.
AdminHeap == [EmptyHeap EXCEPT ![1] = [Name |-> "", Permissions |-> {"add-user"}]]

\* Memberships AddUser and AddPermission build from an empty map.
OriginalMembers ==
    {NoMembers,
     [allocated |-> TRUE, roles |-> [k \in {"k1"} |-> EmptyRole]],
     [allocated |-> TRUE, roles |-> [k \in {"k1", "k2"} |-> IF k = "k2" THEN 1 ELSE EmptyRole]]}

\* The Groups projected: each is what merges and edits of Spec, and AddUser
\* and AddPermission, leave of a fresh Group.
Originals ==
    {[ID |-> "g1", Name |-> n, Picture |-> p, About |-> a, Members |-> m,
      Private |-> pr, Closed |-> cl,
      LastMetadataUpdate |-> t, LastAdminsUpdate |-> t, LastMembersUpdate |-> t] :
        n \in {"", "n1"}, p \in {"", "p1"}, a \in {"", "a1"}, m \in OriginalMembers,
        pr \in BOOLEAN, cl \in BOOLEAN, t \in Timestamps}

InitRoundTrip ==
    /\ groups \in {[r \in {Original, Target} |-> IF r = Original THEN g ELSE ZeroGroup] :
                        g \in Originals}
    /\ heap = Collect(AdminHeap, groups)
    /\ last = NoCall
    /\ pre = [groups |-> groups, heap |-> heap, op |-> "none"]
    /\ pending = [r \in {Original, Target} |-> IF r = Target THEN Categories ELSE {}]
    /\ panicked = FALSE

ProjectMetadata ==
    Idle /\ "metadata" \in pending[Target] /\ CallToMetadataEvent(Original)
         /\ UNCHANGED pending

ProjectAdmins ==
    Idle /\ "admins" \in pending[Target] /\ CallToAdminsEvent(Original)
         /\ UNCHANGED pending

ProjectMembers ==
    Idle /\ "members" \in pending[Target] /\ CallToMembersEvent(Original)
         /\ UNCHANGED pending

RefoldMetadata ==
    /\ last.op = "ToMetadataEvent"
    /\ CallMergeInMetadataEvent(Target, last.evt)
    /\ pending' = [pending EXCEPT ![Target] = @ \ {"metadata"}]

RefoldAdmins ==
    /\ last.op = "ToAdminsEvent"
    /\ CallMergeInAdminsEvent(Target, last.evt)
    /\ pending' = [pending EXCEPT ![Target] = @ \ {"admins"}]

RefoldMembers ==
    /\ last.op = "ToMembersEvent"
    /\ CallMergeInMembersEvent(Target, last.evt)
    /\ pending' = [pending EXCEPT ![Target] = @ \ {"members"}]

NextRoundTrip ==
    \/ ProjectMetadata
    \/ ProjectAdmins
    \/ ProjectMembers
    \/ RefoldMetadata
    \/ RefoldAdmins
    \/ RefoldMembers
    \/ Done

SpecRoundTrip == InitRoundTrip /\ [][NextRoundTrip]_vars

\* What C8 compares of a Group.
DisplayOf(g) == <<g.ID, g.Name, g.About, g.Picture, g.Private, g.Closed>>

\* Who is a member, and with which role name and permission set.
MembershipOf(g, h) ==
    [k \in DOMAIN g.Members.roles |->
        IF g.Members.roles[k] = EmptyRole
        THEN [Name |-> "", Permissions |-> {}, sentinel |-> TRUE]
        ELSE [Name |-> h[g.Members.roles[k]].Name,
              Permissions |-> h[g.Members.roles[k]].Permissions,
              sentinel |-> FALSE]]

\* C8 as stated, for the originals that have a name and whose timestamp is
\* above the fresh Group's: once the event of ToMetadataEvent is folded into
\* the fresh Group, its ID, Name, About, Picture, Private and Closed equal
\* the original's.
C8_MetadataRoundTrip ==
    (/\ last.op = "MergeInMetadataEvent"
     /\ last.r = Target
     /\ groups[Original].Name # ""
     /\ groups[Original].LastMetadataUpdate > ZeroGroup.LastMetadataUpdate)
        => DisplayOf(groups[Target]) = DisplayOf(groups[Original])

\* C9 as stated: ToAdminsEvent and ToMembersEvent complete, and once their
\* events are folded into the fresh Group its membership equals the
\* original's.
C9_MembershipRoundTrip ==
    /\ ~(panicked /\ last.op = "ToAdminsEvent")
    /\ ({"admins", "members"} \cap pending[Target] = {})
        => MembershipOf(groups[Target], heap) = MembershipOf(groups[Original], heap)

\* The p tags of a projected event, in order.
PTags(evt) == GetAll(evt.Tags, <<"p", "">>)

\* C14: ToAdminsEvent completes, and its p tags are one per member whose
\* role is not EmptyRole, each with the member, the role's name and every
\* permission of the role; ToMembersEvent's p tags are one per member.
C14_ProjectionContents ==
    LET members == groups[Original].Members.roles
        admins == {k \in DOMAIN members : members[k] # EmptyRole}
    IN
    /\ last.op = "ToAdminsEvent" =>
        /\ ~panicked
        /\ Len(PTags(last.evt)) = Cardinality(admins)
        /\ \A k \in admins : \E i \in DOMAIN PTags(last.evt) :
                LET tag == PTags(last.evt)[i] IN
                /\ Len(tag) >= 3
                /\ tag[2] = k
                /\ tag[3] = heap[members[k]].Name
                /\ {tag[j] : j \in 4 .. Len(tag)} = heap[members[k]].Permissions
    /\ last.op = "ToMembersEvent" =>
        /\ Len(PTags(last.evt)) = Cardinality(DOMAIN members)
        /\ {PTags(last.evt)[i][2] : i \in DOMAIN PTags(last.evt)} = DOMAIN members

----------------------------------------------------------------------------
(* SpecMembers: one replica folding membership and permission actions,     *)
(* from the memberships a caller may hand over.                            *)

\* A named Role made by the caller; the code never makes one.
NamedHeap == [EmptyHeap EXCEPT ![1] = [Name |-> "mod", Permissions |-> {"add-user"}]]

\* The zero-value map, an empty map, a member with a named role, and two
\* members sharing one named Role object.
InitialMembers ==
    {NilMembers,
     NoMembers,
     [allocated |-> TRUE, roles |-> [k \in {"k1"} |-> 1]],
     [allocated |-> TRUE, roles |-> [k \in {"k1", "k2"} |-> 1]]}

InitMembers ==
    /\ groups \in {[r \in {Replica} |-> [ZeroGroup EXCEPT !.Members = m]] :
                        m \in InitialMembers}
    /\ heap = Collect(NamedHeap, groups)
    /\ last = NoCall
    /\ pre = [groups |-> groups, heap |-> heap, op |-> "none"]
    /\ pending = [r \in {Replica} |-> {}]
    /\ panicked = FALSE

ParseMembership ==
    /\ Idle
    /\ \E evt \in AddUserEvents \cup RemoveUserEvents \cup AddPermissionEvents
                    \cup RemovePermissionEvents \cup DeleteEventEvents \cup OtherEvents :
            CallGetModerationAction(evt)
    /\ UNCHANGED pending

NextMembers ==
    \/ ParseMembership
    \/ ApplyAction
    \/ Done

SpecMembers == InitMembers /\ [][NextMembers]_vars

\* The permissions the Role at p, as it was before the last call, is left
\* with by the RemovePermission action just applied: the action removes its
\* permissions from the Role of every target that holds one.
PermissionsLeft(p) ==
    IF \E t \in Range(last.action.Targets) :
            t \in DOMAIN Before.Members.roles /\ Before.Members.roles[t] = p
    THEN pre.heap[p].Permissions \ Range(last.action.Permissions)
    ELSE pre.heap[p].Permissions

\* C6: a member whose role is unnamed and is left with no permission by an
\* Apply of RemovePermission is still a member after it, and its role is the
\* EmptyRole sentinel itself.
C6_SentinelIdentity ==
    (last.op = "Apply" /\ last.action.type = "RemovePermission") =>
        \A k \in DOMAIN Before.Members.roles :
            LET p == Before.Members.roles[k] IN
            (p # EmptyRole /\ pre.heap[p].Name = "" /\ PermissionsLeft(p) = {})
                => k \in DOMAIN Now.Members.roles /\ Now.Members.roles[k] = EmptyRole

\* C6 witness: RemovePermission was applied to a member that held an unnamed
\* Role with a permission, and the member now holds the sentinel.
C6_Witness ==
    /\ last.op = "Apply"
    /\ last.action.type = "RemovePermission"
    /\ \E k \in DOMAIN Before.Members.roles :
            /\ Before.Members.roles[k] # EmptyRole
            /\ pre.heap[Before.Members.roles[k]].Name = ""
            /\ pre.heap[Before.Members.roles[k]].Permissions # {}
            /\ k \in DOMAIN Now.Members.roles
            /\ Now.Members.roles[k] = EmptyRole

\* C7: on a Group whose Members map is allocated, applying an AddUser action
\* a second time in a row leaves the membership map exactly as the first
\* application left it: the same keys, each with the same role.
C7_AddUserIdempotent ==
    (last.op = "Apply" /\ pre.op = "Apply" /\ last.action.type = "AddUser")
        => Now.Members = Before.Members /\ heap = pre.heap

\* C7 witness: an AddUser action naming two participants has been applied
\* twice in a row.
C7_Witness ==
    /\ last.op = "Apply"
    /\ pre.op = "Apply"
    /\ last.action.type = "AddUser"
    /\ Cardinality(Range(last.action.Targets)) = 2
    /\ DOMAIN Now.Members.roles = Range(last.action.Targets)

\* A permission token of the event that is not in PermissionsMap.
HasUnknownPermission(evt) ==
    /\ evt.Kind \in {KindSimpleGroupAddPermission, KindSimpleGroupRemovePermission}
    /\ \E perm \in Range(Values(evt.Tags, "permission")) : perm \notin PermissionsMap

\* The Role objects members point to.
RolesHeld(g) == {g.Members.roles[k] : k \in DOMAIN g.Members.roles} \ {EmptyRole}

\* C12: an add-permission or remove-permission event with a permission token
\* outside PermissionsMap is rejected by GetModerationAction and never
\* applied, and every permission of every role a member holds is an element
\* of PermissionsMap.
C12_ClosedEnumeration ==
    /\ HasUnknownPermission(last.evt)
        => last.op = "GetModerationAction" /\ last.err # Nil /\ last.action = NoAction
    /\ \A p \in RolesHeld(Now) : heap[p].Permissions \subseteq PermissionsMap

\* C12 witness: an add-permission event with an unknown token and a
\* well-formed target was rejected while a member held a role.
C12_Witness ==
    /\ last.op = "GetModerationAction"
    /\ last.evt.Kind = KindSimpleGroupAddPermission
    /\ HasUnknownPermission(last.evt)
    /\ last.err = "unknown permission"
    /\ \E p \in RolesHeld(Now) : heap[p].Name = "" /\ heap[p].Permissions # {}

\* C13: starting from a zero-value Group, whose Members map is not
\* allocated, no Apply of an action obtained from GetModerationAction ends
\* in a runtime failure.  (Nothing allocates the map, so a Group that
\* started with an unallocated map still has one.)
C13_NoPanic ==
    ~Now.Members.allocated => ~(panicked /\ last.op = "Apply")

\* The last call was an Apply of an action of the given type that returned.
AppliedAction(type) ==
    last.op = "Apply" /\ last.action.type = type /\ ~panicked

\* Member k held no Role before the last call: it was absent or held the
\* EmptyRole sentinel.
HeldNoRole(k) ==
    k \notin DOMAIN Before.Members.roles \/ Before.Members.roles[k] = EmptyRole

\* Member k is a member now as before the last call, with the same Role
\* object in the same state (or the sentinel both times).
KeepsRole(k) ==
    /\ k \in DOMAIN Now.Members.roles
    /\ Now.Members.roles[k] = Before.Members.roles[k]
    /\ Now.Members.roles[k] # EmptyRole
        => heap[Now.Members.roles[k]] = pre.heap[Before.Members.roles[k]]

\* C15: after Apply of RemoveUser no target is a key of Members, whatever
\* role it held, and every member that is not a target keeps exactly the
\* role it had.
C15_RemoveUserRemoves ==
    AppliedAction("RemoveUser") =>
        /\ DOMAIN Now.Members.roles
                = DOMAIN Before.Members.roles \ Range(last.action.Targets)
        /\ \A k \in DOMAIN Before.Members.roles \ Range(last.action.Targets) :
                KeepsRole(k)

\* C15 witness: RemoveUser was applied to a member that held a named role
\* while another member, not a target, held a role; the first is absent now.
C15_Witness ==
    /\ AppliedAction("RemoveUser")
    /\ \E t \in Range(last.action.Targets) :
            /\ t \in DOMAIN Before.Members.roles
            /\ Before.Members.roles[t] # EmptyRole
            /\ pre.heap[Before.Members.roles[t]].Name # ""
            /\ t \notin DOMAIN Now.Members.roles
    /\ \E k \in DOMAIN Now.Members.roles : Now.Members.roles[k] # EmptyRole

\* C16: after Apply of AddPermission every target is a member; a target that
\* was absent or held the sentinel holds an unnamed role whose permissions
\* are exactly the listed ones, and a target that held a role holds that
\* role, with its name, and the union of its permissions and the listed ones.
C16_AddPermissionResult ==
    AppliedAction("AddPermission") =>
        \A t \in Range(last.action.Targets) :
            /\ t \in DOMAIN Now.Members.roles
            /\ Now.Members.roles[t] # EmptyRole
            /\ IF HeldNoRole(t)
               THEN heap[Now.Members.roles[t]]
                        = [Name |-> "", Permissions |-> Range(last.action.Permissions)]
               ELSE /\ Now.Members.roles[t] = Before.Members.roles[t]
                    /\ heap[Now.Members.roles[t]].Name
                            = pre.heap[Before.Members.roles[t]].Name
                    /\ heap[Now.Members.roles[t]].Permissions
                            = pre.heap[Before.Members.roles[t]].Permissions
                                \cup Range(last.action.Permissions)

\* C16 witness: one AddPermission was applied to a target that was absent
\* and to a target that held a role with a permission that is not listed.
C16_Witness ==
    /\ AppliedAction("AddPermission")
    /\ \E t \in Range(last.action.Targets) : t \notin DOMAIN Before.Members.roles
    /\ \E t \in Range(last.action.Targets) :
            /\ ~HeldNoRole(t)
            /\ ~(pre.heap[Before.Members.roles[t]].Permissions
                    \subseteq Range(last.action.Permissions))

\* Member k held an unnamed Role before the last call.
HeldUnnamedRole(k) ==
    /\ k \in DOMAIN Before.Members.roles
    /\ Before.Members.roles[k] # EmptyRole
    /\ pre.heap[Before.Members.roles[k]].Name = ""

\* C17: the targets one AddPermission promotes from absent or the sentinel
\* get a Role object each; an AddPermission or RemovePermission leaves every
\* member it does not name, and that held an unnamed role, with the same
\* role and permissions; and it leaves every member it does not name, and
\* that held the sentinel, with the sentinel.
C17_NoRoleAliasing ==
    /\ AppliedAction("AddPermission") =>
            \A t1, t2 \in Range(last.action.Targets) :
                (t1 # t2 /\ HeldNoRole(t1) /\ HeldNoRole(t2))
                    => Now.Members.roles[t1] # Now.Members.roles[t2]
    /\ (AppliedAction("AddPermission") \/ AppliedAction("RemovePermission")) =>
            \A k \in DOMAIN Before.Members.roles \ Range(last.action.Targets) :
                /\ HeldUnnamedRole(k) => KeepsRole(k)
                /\ Before.Members.roles[k] = EmptyRole => KeepsRole(k)

\* C17 witness: two members held unnamed roles with the same permissions, as
\* one AddPermission leaves them; an AddPermission or RemovePermission that
\* names only one of them was applied, and only that one's permissions
\* changed.
C17_Witness ==
    /\ AppliedAction("AddPermission") \/ AppliedAction("RemovePermission")
    /\ \E t \in Range(last.action.Targets), k \in DOMAIN Now.Members.roles :
            /\ k \notin Range(last.action.Targets)
            /\ HeldUnnamedRole(t)
            /\ HeldUnnamedRole(k)
            /\ pre.heap[Before.Members.roles[t]].Permissions
                    = pre.heap[Before.Members.roles[k]].Permissions
            /\ t \in DOMAIN Now.Members.roles
            /\ Now.Members.roles[t] # EmptyRole
            /\ heap[Now.Members.roles[t]].Permissions
                    # heap[Now.Members.roles[k]].Permissions

\* C18: a member that holds a role with a non-empty Name holds the same
\* role, with that name, after Apply of any RemovePermission action, also
\* one that leaves the role without permissions.
C18_NamedNeverDemoted ==
    AppliedAction("RemovePermission") =>
        \A k \in DOMAIN Before.Members.roles :
            (Before.Members.roles[k] # EmptyRole
                    /\ pre.heap[Before.Members.roles[k]].Name # "")
                => /\ k \in DOMAIN Now.Members.roles
                   /\ Now.Members.roles[k] = Before.Members.roles[k]
                   /\ heap[Now.Members.roles[k]].Name
                            = pre.heap[Before.Members.roles[k]].Name

\* C18 witness: RemovePermission took the last permission of a target's
\* named role, and the target holds the role with no permission.
C18_Witness ==
    /\ AppliedAction("RemovePermission")
    /\ \E t \in Range(last.action.Targets) :
            /\ t \in DOMAIN Before.Members.roles
            /\ Before.Members.roles[t] # EmptyRole
            /\ pre.heap[Before.Members.roles[t]].Name # ""
            /\ pre.heap[Before.Members.roles[t]].Permissions # {}
            /\ Now.Members.roles[t] # EmptyRole
            /\ heap[Now.Members.roles[t]].Permissions = {}

\* C19: no member holds an unnamed role with an empty permission set.
C19_UniformNoRole ==
    \A p \in RolesHeld(Now) : heap[p].Name = "" => heap[p].Permissions # {}

\* C19 witness: RemovePermission was applied to two members with unnamed
\* roles; one was left with a permission and keeps its role, the other was
\* left with none and holds the sentinel.
C19_Witness ==
    /\ AppliedAction("RemovePermission")
    /\ \E t1, t2 \in Range(last.action.Targets) :
            /\ HeldUnnamedRole(t1)
            /\ HeldUnnamedRole(t2)
            /\ Now.Members.roles[t1] = EmptyRole
            /\ Now.Members.roles[t2] # EmptyRole
            /\ heap[Now.Members.roles[t2]].Permissions
                    # pre.heap[Before.Members.roles[t2]].Permissions

\* C20: Apply of AddUser leaves the role of every target that was already a
\* member as it was, and gives the sentinel to every target that was absent.
C20_AddUserKeepsRole ==
    AppliedAction("AddUser") =>
        \A t \in Range(last.action.Targets) :
            IF t \in DOMAIN Before.Members.roles
            THEN KeepsRole(t)
            ELSE t \in DOMAIN Now.Members.roles /\ Now.Members.roles[t] = EmptyRole

----------------------------------------------------------------------------
(* SpecFrame: the snapshots and the metadata and status edits of Spec on a *)
(* Group that has members.                                                 *)

\* An empty map, and the map AddUser and AddPermission make of it: a member
\* with the sentinel and a member with an unnamed Role.
FrameMembers ==
    {NoMembers,
     [allocated |-> TRUE, roles |-> [k \in {"k1", "k2"} |-> IF k = "k2" THEN 1 ELSE EmptyRole]]}

InitFrame ==
    /\ groups \in {[r \in {Replica} |-> [ZeroGroup EXCEPT !.Members = m]] :
                        m \in FrameMembers}
    /\ heap = Collect(AdminHeap, groups)
    /\ last = NoCall
    /\ pre = [groups |-> groups, heap |-> heap, op |-> "none"]
    /\ pending = [r \in {Replica} |-> {}]
    /\ panicked = FALSE

\* EditGroupStatus values a caller writes as a struct literal: the ones with
\* Private set, which GetModerationAction does not return.
StatusLiterals ==
    {[type |-> "EditGroupStatus", Public |-> FALSE, Private |-> TRUE,
      Open |-> FALSE, Closed |-> c, When |-> t] : c \in BOOLEAN, t \in Timestamps}

\* EditGroupStatus{...}.Apply(group)
ApplyLiteral ==
    /\ Idle
    /\ ~panicked
    /\ \E a \in StatusLiterals :
            LET res == Apply(a, groups[Replica], heap)
                gs == [groups EXCEPT ![Replica] = res.group]
            IN  /\ groups' = gs
                /\ heap' = Collect(res.heap, gs)
                /\ panicked' = res.panic
                /\ last' = Call("Apply", Replica, NoEvent, a, Nil)
    /\ pre' = Snapshot
    /\ UNCHANGED pending

NextFrame ==
    \/ MergeMetadata
    \/ MergeAdmins
    \/ MergeMembers
    \/ ParseEdit
    \/ ApplyAction
    \/ ApplyLiteral
    \/ Done

SpecFrame == InitFrame /\ [][NextFrame]_vars

\* C22: an accepted MergeInAdminsEvent changes LastAdminsUpdate and nothing
\* else of the Group, an accepted MergeInMembersEvent changes
\* LastMembersUpdate and nothing else; no entry of Members and no Role
\* changes.
C22_BulkValidateOnly ==
    /\ (last.op = "MergeInAdminsEvent" /\ last.err = Nil) =>
            /\ Now = [Before EXCEPT !.LastAdminsUpdate = Now.LastAdminsUpdate]
            /\ heap = pre.heap
    /\ (last.op = "MergeInMembersEvent" /\ last.err = Nil) =>
            /\ Now = [Before EXCEPT !.LastMembersUpdate = Now.LastMembersUpdate]
            /\ heap = pre.heap

\* C22 witness: an admins snapshot naming a participant with a role was
\* accepted by a Group in which that participant holds the sentinel and
\* another member holds a Role; the timestamp moved.
C22_Witness ==
    /\ last.op = "MergeInAdminsEvent"
    /\ last.err = Nil
    /\ Now.LastAdminsUpdate # Before.LastAdminsUpdate
    /\ Now.ID # ""
    /\ \E i \in DOMAIN last.evt.Tags :
            /\ Len(last.evt.Tags[i]) >= 3
            /\ last.evt.Tags[i][1] = "p"
            /\ last.evt.Tags[i][2] \in DOMAIN Now.Members.roles
            /\ Now.Members.roles[last.evt.Tags[i][2]] = EmptyRole
    /\ RolesHeld(Now) # {}

\* C24: Apply of EditGroupStatus sets Private to false for public and to
\* true for private, Closed to false for open and to true for closed, keeps
\* a flag whose two markers are absent, sets LastMetadataUpdate to When, and
\* changes nothing else.
C24_StatusFrame ==
    AppliedAction("EditGroupStatus") =>
        LET a == last.action IN
        /\ a.Public => ~Now.Private
        /\ (a.Private /\ ~a.Public) => Now.Private
        /\ (~a.Public /\ ~a.Private) => Now.Private = Before.Private
        /\ a.Open => ~Now.Closed
        /\ (a.Closed /\ ~a.Open) => Now.Closed
        /\ (~a.Open /\ ~a.Closed) => Now.Closed = Before.Closed
        /\ Now.LastMetadataUpdate = a.When
        /\ Now = [Before EXCEPT !.Private = Now.Private,
                                !.Closed = Now.Closed,
                                !.LastMetadataUpdate = Now.LastMetadataUpdate]
        /\ heap = pre.heap

\* C24 witness: an action asserting closed alone was applied to a private,
\* open Group with a name and a member holding a Role; the Group is private
\* and closed, with another LastMetadataUpdate.
C24_Witness ==
    /\ AppliedAction("EditGroupStatus")
    /\ last.action.Closed
    /\ ~last.action.Public /\ ~last.action.Private /\ ~last.action.Open
    /\ Before.Private /\ ~Before.Closed
    /\ Now.Private /\ Now.Closed
    /\ Now.Name # ""
    /\ RolesHeld(Now) # {}
    /\ Now.LastMetadataUpdate # Before.LastMetadataUpdate

\* C25: after Apply of EditMetadata, Name, About and Picture are the
\* action's NameValue, AboutValue and PictureValue and LastMetadataUpdate is
\* its When; a field whose tag the edit-metadata event did not carry is the
\* empty string.
C25_EditOverwrites ==
    AppliedAction("EditMetadata") =>
        /\ Now.Name = last.action.NameValue
        /\ Now.About = last.action.AboutValue
        /\ Now.Picture = last.action.PictureValue
        /\ Now.LastMetadataUpdate = last.action.When
        /\ ~HasTag(last.evt.Tags, <<"name", "">>) => Now.Name = ""
        /\ ~HasTag(last.evt.Tags, <<"about", "">>) => Now.About = ""
        /\ ~HasTag(last.evt.Tags, <<"picture", "">>) => Now.Picture = ""

\* C25 witness: an action parsed from an event with about and picture tags
\* and no name tag was applied to a Group that had a name and a newer
\* LastMetadataUpdate; the name is empty and the timestamp is the older one.
C25_Witness ==
    /\ AppliedAction("EditMetadata")
    /\ last.evt.Kind = KindSimpleGroupEditMetadata
    /\ ~HasTag(last.evt.Tags, <<"name", "">>)
    /\ Before.Name # ""
    /\ Now.Name = ""
    /\ Now.About # ""
    /\ Before.LastMetadataUpdate > last.action.When
    /\ Now.LastMetadataUpdate = last.action.When

====
